---- MODULE Spec2Model ----
(***************************************************************************)
(* Model of src/app.py: the Flask service with the routes /, /quote and    *)
(* /health.  A /quote request is validated, a prompt is built, one POST is *)
(* sent to the completion API, the reply is normalised into a quote or an  *)
(* error, and a JSON response is produced (with a fallback quote when the  *)
(* completion client reported an error).                                   *)
(*                                                                         *)
(* Python strings that the code inspects character by character (query     *)
(* arguments, message content, reasoning text, quotes) are sequences of    *)
(* one-character strings.  Texts that the code only tests for truthiness   *)
(* or copies (error messages, the API key, fixed JSON texts) are TLA+      *)
(* strings.  Optional values are tagged records.                           *)
(*                                                                         *)
(* The except clause of lines 223-228 (status 500) has no step: every      *)
(* exception of the upstream call and of the normalisation is caught on    *)
(* line 136, and validated numbers raise nothing in lines 187-221.         *)
(***************************************************************************)
EXTENDS Integers, Sequences, FiniteSets, TLC

(***************************************************************************)
(* Bounds of the model.                                                    *)
(***************************************************************************)
NumRequests == 2
MaxTarget == 100
MaxContentTokens == 3
MaxReasoningTokens == 4

Reqs == 1..NumRequests

(***************************************************************************)
(* Optional values: Python None, an absent JSON key, JSON null, a string.  *)
(***************************************************************************)
NoneVal == [tag |-> "None"]
Absent == [tag |-> "absent"]
Null == [tag |-> "null"]
Str(s) == [tag |-> "str", val |-> s]
IsStr(v) == v.tag = "str"

(***************************************************************************)
(* Python str methods on sequences of characters.                          *)
(***************************************************************************)
DQ == "\""
SQ == "'"
NL == "\n"
Whitespace == {" ", "\n", "\t", "\r"}
Digits == {"0", "1", "2", "3", "4", "5", "6", "7", "8", "9"}

\* c.lower() for one character
LowerChar(c) ==
    CASE c = "A" -> "a" [] c = "B" -> "b" [] c = "C" -> "c" [] c = "D" -> "d"
      [] c = "E" -> "e" [] c = "F" -> "f" [] c = "G" -> "g" [] c = "H" -> "h"
      [] c = "I" -> "i" [] c = "J" -> "j" [] c = "K" -> "k" [] c = "L" -> "l"
      [] c = "M" -> "m" [] c = "N" -> "n" [] c = "O" -> "o" [] c = "P" -> "p"
      [] c = "Q" -> "q" [] c = "R" -> "r" [] c = "S" -> "s" [] c = "T" -> "t"
      [] c = "U" -> "u" [] c = "V" -> "v" [] c = "W" -> "w" [] c = "X" -> "x"
      [] c = "Y" -> "y" [] c = "Z" -> "z" [] OTHER -> c

\* s.lower()
Lower(s) == [i \in 1..Len(s) |-> LowerChar(s[i])]

\* s.strip(chars): every leading and trailing character that is in cs goes
StripChars(s, cs) ==
    LET keep == {i \in 1..Len(s) : s[i] \notin cs}
    IN  IF keep = {} THEN <<>>
        ELSE LET lo == CHOOSE i \in keep : \A j \in keep : i <= j
                 hi == CHOOSE i \in keep : \A j \in keep : i >= j
             IN  SubSeq(s, lo, hi)

\* s.strip()
Strip(s) == StripChars(s, Whitespace)

\* the positions at which sub occurs in s
Occurrences(s, sub) ==
    {i \in 1..(Len(s) - Len(sub) + 1) : SubSeq(s, i, i + Len(sub) - 1) = sub}

\* sub in s
Contains(s, sub) == Occurrences(s, sub) # {}

\* s.endswith(sub)
EndsWith(s, sub) ==
    /\ Len(s) >= Len(sub)
    /\ SubSeq(s, Len(s) - Len(sub) + 1, Len(s)) = sub

\* s.split(sep): the pieces between the occurrences of sep, left to right
RECURSIVE Split(_, _)
Split(s, sep) ==
    IF Occurrences(s, sep) = {} THEN <<s>>
    ELSE LET i == CHOOSE k \in Occurrences(s, sep) :
                      \A j \in Occurrences(s, sep) : k <= j
         IN  <<SubSeq(s, 1, i - 1)>> \o Split(SubSeq(s, i + Len(sep), Len(s)), sep)

\* s.split(sep, 1)[-1]: what follows the first sep, or s when there is none
AfterFirst(s, sep) ==
    IF Occurrences(s, sep) = {} THEN s
    ELSE LET i == CHOOSE k \in Occurrences(s, sep) :
                      \A j \in Occurrences(s, sep) : k <= j
         IN  SubSeq(s, i + Len(sep), Len(s))

DigitVal(c) ==
    CASE c = "0" -> 0 [] c = "1" -> 1 [] c = "2" -> 2 [] c = "3" -> 3
      [] c = "4" -> 4 [] c = "5" -> 5 [] c = "6" -> 6 [] c = "7" -> 7
      [] c = "8" -> 8 [] c = "9" -> 9

RECURSIVE DecimalValue(_)
DecimalValue(ds) ==
    IF ds = <<>> THEN 0
    ELSE 10 * DecimalValue(SubSeq(ds, 1, Len(ds) - 1)) + DigitVal(ds[Len(ds)])

\* int(s) accepts: surrounding whitespace, one optional sign, decimal
\* digits with single underscores between digits
IntBody(s) ==
    LET t == Strip(s)
    IN  IF t # <<>> /\ t[1] \in {"-", "+"} THEN Tail(t) ELSE t

IntParses(s) ==
    LET b == IntBody(s)
    IN  /\ b # <<>>
        /\ \A i \in 1..Len(b) : b[i] \in Digits \cup {"_"}
        /\ b[1] \in Digits
        /\ b[Len(b)] \in Digits
        /\ \A i \in 1..(Len(b) - 1) : ~(b[i] = "_" /\ b[i + 1] = "_")

\* int(s) when it does not raise ValueError
IntValue(s) ==
    LET t == Strip(s)
        b == SelectSeq(IntBody(s), LAMBDA c : c \in Digits)
    IN  IF t[1] = "-" THEN 0 - DecimalValue(b) ELSE DecimalValue(b)


\* str(n) for an integer n
RECURSIVE NatToStr(_)
NatToStr(n) ==
    LET d == <<"0", "1", "2", "3", "4", "5", "6", "7", "8", "9">>
    IN  IF n < 10 THEN <<d[n + 1]>> ELSE NatToStr(n \div 10) \o <<d[(n % 10) + 1]>>

IntToStr(n) == IF n < 0 THEN <<"-">> \o NatToStr(0 - n) ELSE NatToStr(n)

(***************************************************************************)
(* Prompt Builder: generate_motivational_prompt.                           *)
(* progress_percentage is (days_completed / total_target) * 100 in binary64 *)
(* arithmetic.  It is kept as the exact ratio <<100 * days_completed,      *)
(* total_target>>: for the totals of this model the binary64 value         *)
(* compares with 25, 50 and 75 exactly as the ratio does (the two differ   *)
(* only for totals beyond the 53 bits of a binary64 significand).          *)
(***************************************************************************)
\* Percentage taken of the days left instead of the days completed
PercentageOfRemaining(days_left, total_target) ==
    <<100 * days_left, total_target>>

Percentage(days_left, total_target) ==
    <<100 * (total_target - days_left), total_target>>

\* p < k for a ratio p with a positive denominator
PctLess(p, k) == p[1] < k * p[2]

\* PhaseOf with the thresholds compared by <= instead of <
PhaseOfInclusive(progress_percentage) ==
    IF progress_percentage[1] <= 25 * progress_percentage[2] THEN "beginning"
    ELSE IF progress_percentage[1] <= 50 * progress_percentage[2] THEN "early progress"
    ELSE IF progress_percentage[1] <= 75 * progress_percentage[2] THEN "middle journey"
    ELSE "final sprint"

PhaseOf(progress_percentage) ==
    IF PctLess(progress_percentage, 25) THEN "beginning"
    ELSE IF PctLess(progress_percentage, 50) THEN "early progress"
    ELSE IF PctLess(progress_percentage, 75) THEN "middle journey"
    ELSE "final sprint"

ToneOf(progress_percentage) ==
    IF PctLess(progress_percentage, 25) THEN "energetic and encouraging"
    ELSE IF PctLess(progress_percentage, 50) THEN "motivating and momentum-building"
    ELSE IF PctLess(progress_percentage, 75) THEN "resilient and persistent"
    ELSE "determined and finish-strong"

\* the values the prompt text embeds
generate_motivational_prompt(days_left, total_target) ==
    [days_completed |-> total_target - days_left,
     total_target |-> total_target,
     days_left |-> days_left,
     progress_percentage |-> Percentage(days_left, total_target),
     phase |-> PhaseOf(Percentage(days_left, total_target)),
     tone |-> ToneOf(Percentage(days_left, total_target))]

(***************************************************************************)
(* Completion Client: get_quote_from_llm, from the reply onwards.          *)
(***************************************************************************)
MaxQuoteLen == 200
StatusOK == 200

Raised(text) == [kind |-> "exception", text |-> text]
Reply(status_code, body) ==
    [kind |-> "response", status_code |-> status_code, body |-> body]
Message(content, reasoning) ==
    [json |-> "message", content |-> content, reasoning |-> reasoning]
NoChoices == [json |-> "no_choices"]
InvalidJson == [json |-> "invalid"]

Markers == {<<"q", "u", "o", "t", "e", ":">>,
            <<"r", "e", "s", "p", "o", "n", "s", "e", ":">>,
            <<"a", "n", "s", "w", "e", "r", ":">>}

HasMarker(line) == \E keyword \in Markers : Contains(Lower(line), keyword)

\* lines 116-121: the last sentence of the reasoning text
LastSentence(reasoning) ==
    LET sentences == Split(reasoning, <<".", " ">>)
        quote == Strip(sentences[Len(sentences)])
    IN  IF EndsWith(quote, <<".">>) THEN SubSeq(quote, 1, Len(quote) - 1) ELSE quote

\* FromReasoning without the test of line 108 and without the test of line 117
FromReasoningUngated(reasoning) ==
    LET lines == Split(reasoning, <<NL>>)
        hits == {i \in 1..Len(lines) : HasMarker(lines[i])}
    IN  IF hits = {} THEN LastSentence(reasoning)
        ELSE LET i == CHOOSE k \in hits : \A j \in hits : k <= j
             IN  Strip(AfterFirst(lines[i], <<":">>))

\* lines 108-121: the quote taken from the reasoning text
FromReasoning(reasoning) ==
    IF Contains(Lower(reasoning), <<"q", "u", "o", "t", "e">>)
    THEN LET lines == Split(reasoning, <<NL>>)
             hits == {i \in 1..Len(lines) : HasMarker(lines[i])}
             quote == IF hits = {} THEN <<>>
                      ELSE LET i == CHOOSE k \in hits : \A j \in hits : k <= j
                           IN  Strip(AfterFirst(lines[i], <<":">>))
         IN  IF quote = <<>> THEN LastSentence(reasoning) ELSE quote
    ELSE <<>>

\* lines 101-121: the value of quote when line 123 is reached; the message
\* has a content that is a string or absent, and a reasoning that is a
\* string or absent
ExtractQuote(message) ==
    LET quote == IF IsStr(message.content) THEN Strip(message.content.val) ELSE <<>>
    IN  IF quote = <<>> /\ IsStr(message.reasoning)
        THEN FromReasoning(message.reasoning.val)
        ELSE quote

\* s without one pair of the character c around it, if it has one
StripOnePair(s, c) ==
    IF Len(s) >= 2 /\ s[1] = c /\ s[Len(s)] = c THEN SubSeq(s, 2, Len(s) - 1) ELSE s

\* StripQuotes removing one pair of each quote character only
StripQuotesOnePair(quote) == Strip(StripOnePair(StripOnePair(quote, DQ), SQ))

\* line 125
StripQuotes(quote) == Strip(StripChars(StripChars(quote, {DQ}), {SQ}))

\* Truncate without the marker
TruncateNoMarker(quote) ==
    IF Len(quote) > MaxQuoteLen THEN SubSeq(quote, 1, MaxQuoteLen) ELSE quote

\* lines 127-128
Truncate(quote) ==
    IF Len(quote) > MaxQuoteLen
    THEN SubSeq(quote, 1, MaxQuoteLen) \o <<".", ".", ".">>
    ELSE quote

\* the text of the exception that lines 98-121 raise on this body, if any
ParseFailure(body) ==
    IF body.json = "invalid" THEN Str("Expecting value: line 1 column 1 (char 0)")
    ELSE IF body.json = "no_choices" THEN Str("'choices'")
    ELSE IF body.content = Null
         THEN Str("'NoneType' object has no attribute 'strip'")
    ELSE IF ExtractQuote([body EXCEPT !.reasoning = Absent]) = <<>>
            /\ body.reasoning = Null
         THEN Str("'NoneType' object has no attribute 'lower'")
    ELSE NoneVal

ApiErrorText(status_code) == "API Error: " \o ToString(status_code)

\* lines 96-138: what get_quote_from_llm returns for the outcome of the POST,
\* with the values the local variable quote had at lines 123 and 126
get_quote_from_llm(outcome) ==
    IF outcome.kind = "exception"
    THEN [quote |-> NoneVal, error |-> Str(outcome.text),
          extracted |-> NoneVal, stripped |-> NoneVal]
    ELSE IF outcome.status_code # StatusOK
    THEN [quote |-> NoneVal, error |-> Str(ApiErrorText(outcome.status_code)),
          extracted |-> NoneVal, stripped |-> NoneVal]
    ELSE IF ParseFailure(outcome.body) # NoneVal
    THEN [quote |-> NoneVal, error |-> ParseFailure(outcome.body),
          extracted |-> NoneVal, stripped |-> NoneVal]
    ELSE LET quote == ExtractQuote(outcome.body)
         IN  IF quote # <<>>
             THEN [quote |-> Str(Truncate(StripQuotes(quote))), error |-> NoneVal,
                   extracted |-> Str(quote), stripped |-> Str(StripQuotes(quote))]
             ELSE [quote |-> NoneVal, error |-> Str("No quote generated in response"),
                   extracted |-> Str(quote), stripped |-> NoneVal]

\* Python truthiness of an error that is None or a text
Truthy(v) == IsStr(v) /\ v.val # ""


(***************************************************************************)
(* State.  Every request r has its own locals; OPENROUTER_API_KEY is the   *)
(* one module-level variable of app.py.                                    *)
(***************************************************************************)
VARIABLES
    OPENROUTER_API_KEY, \* line 13: set once when the module is loaded
    pc,                 \* r -> where the request is
    route,              \* r -> the path requested
    args,               \* r -> request.args: daysLeft and totalTarget
    days_left,          \* r -> the converted daysLeft, once line 164 has run
    total_target,       \* r -> the converted totalTarget, once line 165 has run
    prompt,             \* r -> what generate_motivational_prompt returned
    posts,              \* r -> how many times requests.post was called
    upstream,           \* r -> the outcome of requests.post
    result,             \* r -> what get_quote_from_llm returned
    response,           \* r -> the response sent
    responses           \* r -> how many responses were sent

vars == <<OPENROUTER_API_KEY, pc, route, args, days_left, total_target, prompt,
          posts, upstream, result, response, responses>>

\* a converted argument: a Python int
Num(n) == [tag |-> "int", val |-> n]

UsageText == "/quote?daysLeft=<number>&totalTarget=<number>"

fallback_quotes ==
    {[tag |-> "fallback",
      text |-> "Every day forward is a step closer to your vision becoming reality."],
     [tag |-> "fallback",
      text |-> "The entrepreneur's path isn't easy, but it's worth every challenge."],
     [tag |-> "fallback",
      text |-> "Your startup is built one decision, one day, one breakthrough at a time."],
     [tag |-> "fallback",
      text |-> "Progress isn't always visible, but persistence always pays off."],
     [tag |-> "fallback",
      text |-> "Today's small wins compound into tomorrow's big victories."]}

\* jsonify(body), status
Json(status_code, body) == [status_code |-> status_code, body |-> body]

\* a request arrives: Flask routes it and parses its query string
Receive(r, routes, dls, tts) ==
    /\ pc[r] = "idle"
    /\ \E p \in routes, dl \in dls, tt \in tts :
          /\ route' = [route EXCEPT ![r] = p]
          /\ args' = [args EXCEPT ![r] =
                        IF p = "/quote" THEN [daysLeft |-> dl, totalTarget |-> tt]
                        ELSE [daysLeft |-> Absent, totalTarget |-> Absent]]
    /\ pc' = [pc EXCEPT ![r] = "routed"]
    /\ UNCHANGED <<OPENROUTER_API_KEY, days_left, total_target, prompt, posts,
                   upstream, result, response, responses>>

\* lines 140-146
Index(r) ==
    /\ pc[r] = "routed"
    /\ route[r] = "/"
    /\ response' = [response EXCEPT ![r] =
          Json(StatusOK, [message |-> "Startup Motivational Quote API",
                          usage |-> UsageText,
                          example |-> "/quote?daysLeft=23&totalTarget=100"])]
    /\ responses' = [responses EXCEPT ![r] = @ + 1]
    /\ pc' = [pc EXCEPT ![r] = "done"]
    /\ UNCHANGED <<OPENROUTER_API_KEY, route, args, days_left, total_target,
                   prompt, posts, upstream, result>>

\* lines 230-236
health_check(r) ==
    /\ pc[r] = "routed"
    /\ route[r] = "/health"
    /\ response' = [response EXCEPT ![r] =
          Json(StatusOK, [status |-> "healthy",
                          openrouter_key_configured |-> OPENROUTER_API_KEY # "NOT_SET"])]
    /\ responses' = [responses EXCEPT ![r] = @ + 1]
    /\ pc' = [pc EXCEPT ![r] = "done"]
    /\ UNCHANGED <<OPENROUTER_API_KEY, route, args, days_left, total_target,
                   prompt, posts, upstream, result>>

\* not days_left (line 156) for an argument that is absent or a string
Falsy(arg) == ~IsStr(arg) \/ arg.val = <<>>

\* lines 162-169: both conversions succeed
Converts(a) == IntParses(a.daysLeft.val) /\ IntParses(a.totalTarget.val)

\* InRange without the check of line 177
InRangeNoUpper(dl, tt) == ~(dl < 0 \/ tt <= 0)

\* lines 171-180: the range checks pass
InRange(dl, tt) == ~(dl < 0 \/ tt <= 0) /\ ~(dl > tt)

\* the 400 response of lines 156-180 for arguments that fail validation
Rejection(a) ==
    IF Falsy(a.daysLeft) \/ Falsy(a.totalTarget)
    THEN Json(400, [error |-> "Both daysLeft and totalTarget parameters are required",
                    usage |-> UsageText])
    ELSE IF ~Converts(a)
    THEN Json(400, [error |-> "daysLeft and totalTarget must be valid numbers"])
    ELSE IF IntValue(a.daysLeft.val) < 0 \/ IntValue(a.totalTarget.val) <= 0
    THEN Json(400, [error |-> "daysLeft cannot be negative and totalTarget must be positive"])
    ELSE Json(400, [error |-> "daysLeft cannot be greater than totalTarget"])

\* lines 152-180 accept the arguments
Accepts(a) ==
    /\ ~Falsy(a.daysLeft)
    /\ ~Falsy(a.totalTarget)
    /\ Converts(a)
    /\ InRange(IntValue(a.daysLeft.val), IntValue(a.totalTarget.val))

\* lines 150-182 of get_motivational_quote
Validate(r) ==
    /\ pc[r] = "routed"
    /\ route[r] = "/quote"
    /\ LET a == args[r]
           converted == ~Falsy(a.daysLeft) /\ ~Falsy(a.totalTarget) /\ Converts(a)
       IN  /\ days_left' = [days_left EXCEPT ![r] =
                 IF converted THEN Num(IntValue(a.daysLeft.val)) ELSE @]
           /\ total_target' = [total_target EXCEPT ![r] =
                 IF converted THEN Num(IntValue(a.totalTarget.val)) ELSE @]
           /\ IF Accepts(a)
              THEN /\ pc' = [pc EXCEPT ![r] = "call"]
                   /\ UNCHANGED <<response, responses>>
              ELSE /\ pc' = [pc EXCEPT ![r] = "done"]
                   /\ response' = [response EXCEPT ![r] = Rejection(a)]
                   /\ responses' = [responses EXCEPT ![r] = @ + 1]
    /\ UNCHANGED <<OPENROUTER_API_KEY, route, args, prompt, posts, upstream, result>>

\* Post keeping the numbers it was called with in module-level variables
PostShared(r) ==
    /\ pc[r] = "call"
    /\ prompt' = [prompt EXCEPT ![r] =
          generate_motivational_prompt(days_left[r].val, total_target[r].val)]
    /\ days_left' = [q \in Reqs |-> IF days_left[q] = NoneVal THEN NoneVal ELSE days_left[r]]
    /\ total_target' = [q \in Reqs |-> IF total_target[q] = NoneVal THEN NoneVal ELSE total_target[r]]
    /\ posts' = [posts EXCEPT ![r] = @ + 1]
    /\ pc' = [pc EXCEPT ![r] = "wait"]
    /\ UNCHANGED <<OPENROUTER_API_KEY, route, args, upstream, result, response, responses>>

\* lines 185 and 67-94: the prompt is built and the POST is issued
Post(r) ==
    /\ pc[r] = "call"
    /\ prompt' = [prompt EXCEPT ![r] =
          generate_motivational_prompt(days_left[r].val, total_target[r].val)]
    /\ posts' = [posts EXCEPT ![r] = @ + 1]
    /\ pc' = [pc EXCEPT ![r] = "wait"]
    /\ UNCHANGED <<OPENROUTER_API_KEY, route, args, days_left, total_target,
                   upstream, result, response, responses>>

\* requests.post returns a reply or raises
UpstreamReturns(r, outcomes) ==
    /\ pc[r] = "wait"
    /\ \E o \in outcomes : upstream' = [upstream EXCEPT ![r] = o]
    /\ pc' = [pc EXCEPT ![r] = "normalize"]
    /\ UNCHANGED <<OPENROUTER_API_KEY, route, args, days_left, total_target,
                   prompt, posts, result, response, responses>>

\* Normalize that issues the POST again when the client reports an error
NormalizeRetry(r) ==
    /\ pc[r] = "normalize"
    /\ result' = [result EXCEPT ![r] = get_quote_from_llm(upstream[r])]
    /\ pc' = [pc EXCEPT ![r] =
                IF Truthy(get_quote_from_llm(upstream[r]).error) THEN "call" ELSE "respond"]
    /\ UNCHANGED <<OPENROUTER_API_KEY, route, args, days_left, total_target,
                   prompt, posts, upstream, response, responses>>

\* lines 96-138: the rest of get_quote_from_llm
Normalize(r) ==
    /\ pc[r] = "normalize"
    /\ result' = [result EXCEPT ![r] = get_quote_from_llm(upstream[r])]
    /\ pc' = [pc EXCEPT ![r] = "respond"]
    /\ UNCHANGED <<OPENROUTER_API_KEY, route, args, days_left, total_target,
                   prompt, posts, upstream, response, responses>>

\* lines 203-209: the body of the fallback response; progressPercentage is
\* round(progress_percentage, 1), a function of the ratio, kept as the ratio
FallbackBody(quote, dl, tt) ==
    [quote |-> quote, daysLeft |-> dl, totalTarget |-> tt,
     progressPercentage |-> Percentage(dl, tt),
     warning |-> "Used fallback quote due to API issues"]

\* lines 215-221: the body of the success response
SuccessBody(quote, dl, tt) ==
    [quote |-> quote, daysLeft |-> dl, totalTarget |-> tt,
     daysCompleted |-> tt - dl,
     progressPercentage |-> Percentage(dl, tt)]

\* line 187
UsesFallback(res) == Truthy(res.error)

\* lines 187-221 of get_motivational_quote
Respond(r) ==
    /\ pc[r] = "respond"
    /\ IF UsesFallback(result[r])
       THEN \E quote \in fallback_quotes :
               response' = [response EXCEPT ![r] =
                  Json(StatusOK, FallbackBody(quote, days_left[r].val, total_target[r].val))]
       ELSE response' = [response EXCEPT ![r] =
               Json(StatusOK, SuccessBody(result[r].quote, days_left[r].val,
                                          total_target[r].val))]
    /\ responses' = [responses EXCEPT ![r] = @ + 1]
    /\ pc' = [pc EXCEPT ![r] = "done"]
    /\ UNCHANGED <<OPENROUTER_API_KEY, route, args, days_left, total_target,
                   prompt, posts, upstream, result>>


(***************************************************************************)
(* Inputs.                                                                 *)
(***************************************************************************)
Routes == {"/", "/quote", "/health"}

ApiKeys == {"NOT_SET", "sk-or-v1-0123"}

\* query arguments: absent, empty, not numbers, and numbers in and out of range
DaysLeftArgs ==
    {Absent, Str(<<>>), Str(<<"x">>), Str(<<" ", "2">>), Str(<<"1", "_", "0">>)}
    \cup {Str(IntToStr(n)) : n \in {-1, 0, 1, 3, 5, MaxTarget, 2 * MaxTarget}}

TotalTargetArgs ==
    {Absent, Str(<<>>), Str(<<"1", ".", "5">>), Str(<<"+", "4">>)}
    \cup {Str(IntToStr(n)) : n \in {-4, 0, 4, MaxTarget}}

RECURSIVE Flatten(_)
Flatten(ss) == IF ss = <<>> THEN <<>> ELSE Head(ss) \o Flatten(Tail(ss))

\* the concatenations of at most n tokens
TokenStrings(tokens, n) ==
    {Flatten(f) : f \in UNION {[1..k -> tokens] : k \in 0..n}}

\* a word of half the length limit
LongWord == [i \in 1..(MaxQuoteLen \div 2) |-> "a"]

ContentTokens == {<<DQ>>, <<SQ>>, <<" ">>, <<"a">>, LongWord}

ReasoningTokens ==
    {<<"Q", "u", "o", "t", "e">>, <<":">>, <<"a", "n", "s", "w", "e", "r", ":">>,
     <<" ", "G", "o">>, <<".", " ">>, <<".">>, <<NL>>}

\* the example of the specification: "... the quote: Build boldly."
ExampleReasoning ==
    <<".", ".", ".", " ", "t", "h", "e", " ", "q", "u", "o", "t", "e", ":", " ",
      "B", "u", "i", "l", "d", " ", "b", "o", "l", "d", "l", "y", ".">>

BuildBoldly ==
    <<"B", "u", "i", "l", "d", " ", "b", "o", "l", "d", "l", "y", ".">>

\* messages of a 200 reply: any content without reasoning, and a content
\* that is absent, blank or a word with any reasoning
NormMessages ==
    {Message(Str(c), Absent) : c \in TokenStrings(ContentTokens, MaxContentTokens)}
    \cup {Message(c, Str(t)) :
            c \in {Absent, Str(<<>>), Str(<<" ">>), Str(<<"a">>)},
            t \in TokenStrings(ReasoningTokens, MaxReasoningTokens)
                    \cup {ExampleReasoning}}
    \cup {Message(Null, Absent), Message(Str(<<>>), Null), Message(Absent, Absent)}

NormOutcomes == {Reply(StatusOK, m) : m \in NormMessages}

\* outcomes of the POST seen by the request handler
HandlerOutcomes ==
    {Raised(""), Raised("HTTPSConnectionPool: Read timed out. (read timeout=30)"),
     Reply(500, InvalidJson), Reply(429, InvalidJson),
     Reply(StatusOK, InvalidJson), Reply(StatusOK, NoChoices)}
    \cup {Reply(StatusOK, Message(c, t)) :
            c \in {Absent, Null, Str(<<>>), Str(<<DQ, DQ>>), Str(<<DQ, "a", DQ>>),
                   Str(LongWord \o <<" ">> \o LongWord)},
            t \in {Absent, Str(ExampleReasoning)}}

\* the smaller inputs of concurrently handled requests
ConcDaysLeftArgs == {Absent, Str(<<"1">>), Str(<<"3">>)}
ConcTotalTargetArgs == {Str(<<"2">>), Str(<<"4">>)}
ConcOutcomes ==
    {Raised("HTTPSConnectionPool: Read timed out. (read timeout=30)"),
     Reply(503, InvalidJson),
     Reply(StatusOK, Message(Str(<<"G", "o">>), Absent))}

(***************************************************************************)
(* Specifications.                                                         *)
(***************************************************************************)
Idle ==
    /\ pc = [r \in Reqs |-> "idle"]
    /\ route = [r \in Reqs |-> ""]
    /\ args = [r \in Reqs |-> [daysLeft |-> Absent, totalTarget |-> Absent]]
    /\ days_left = [r \in Reqs |-> NoneVal]
    /\ total_target = [r \in Reqs |-> NoneVal]
    /\ prompt = [r \in Reqs |-> NoneVal]
    /\ posts = [r \in Reqs |-> 0]
    /\ upstream = [r \in Reqs |-> NoneVal]
    /\ result = [r \in Reqs |-> NoneVal]
    /\ response = [r \in Reqs |-> NoneVal]
    /\ responses = [r \in Reqs |-> 0]

\* the module is loaded: line 13 reads the key from the environment
Init ==
    /\ OPENROUTER_API_KEY \in ApiKeys
    /\ Idle

\* one request at a time, every kind of argument and upstream outcome
Next ==
    \E r \in {1} :
        \/ Receive(r, Routes, DaysLeftArgs, TotalTargetArgs)
        \/ Index(r)
        \/ health_check(r)
        \/ Validate(r)
        \/ Post(r)
        \/ UpstreamReturns(r, HandlerOutcomes)
        \/ Normalize(r)
        \/ Respond(r)

Spec == Init /\ [][Next]_vars

\* requests handled concurrently, their steps interleaved
NextConc ==
    \E r \in Reqs :
        \/ Receive(r, Routes, ConcDaysLeftArgs, ConcTotalTargetArgs)
        \/ Index(r)
        \/ health_check(r)
        \/ Validate(r)
        \/ Post(r)
        \/ UpstreamReturns(r, ConcOutcomes)
        \/ Normalize(r)
        \/ Respond(r)

SpecConc == Init /\ [][NextConc]_vars

\* request 1 has passed validation with the numbers dl and tt
Validated(dl, tt) ==
    /\ route = [r \in Reqs |-> IF r = 1 THEN "/quote" ELSE ""]
    /\ args = [r \in Reqs |->
                 IF r = 1 THEN [daysLeft |-> Str(IntToStr(dl)),
                                totalTarget |-> Str(IntToStr(tt))]
                 ELSE [daysLeft |-> Absent, totalTarget |-> Absent]]
    /\ days_left = [r \in Reqs |-> IF r = 1 THEN Num(dl) ELSE NoneVal]
    /\ total_target = [r \in Reqs |-> IF r = 1 THEN Num(tt) ELSE NoneVal]
    /\ response = [r \in Reqs |-> NoneVal]
    /\ responses = [r \in Reqs |-> 0]

\* the Prompt Builder on every valid pair of numbers up to MaxTarget
InitPrompt ==
    /\ OPENROUTER_API_KEY \in ApiKeys
    /\ \E tt \in 1..MaxTarget : \E dl \in 0..tt : Validated(dl, tt)
    /\ pc = [r \in Reqs |-> IF r = 1 THEN "call" ELSE "idle"]
    /\ prompt = [r \in Reqs |-> NoneVal]
    /\ posts = [r \in Reqs |-> 0]
    /\ upstream = [r \in Reqs |-> NoneVal]
    /\ result = [r \in Reqs |-> NoneVal]

NextPrompt == Post(1)

SpecPrompt == InitPrompt /\ [][NextPrompt]_vars

\* the normalisation on every message of NormMessages
InitNorm ==
    /\ OPENROUTER_API_KEY \in ApiKeys
    /\ Validated(1, 4)
    /\ pc = [r \in Reqs |-> IF r = 1 THEN "normalize" ELSE "idle"]
    /\ prompt = [r \in Reqs |->
                   IF r = 1 THEN generate_motivational_prompt(1, 4) ELSE NoneVal]
    /\ posts = [r \in Reqs |-> IF r = 1 THEN 1 ELSE 0]
    /\ upstream \in {[r \in Reqs |-> IF r = 1 THEN o ELSE NoneVal] : o \in NormOutcomes}
    /\ result = [r \in Reqs |-> NoneVal]

NextNorm == Normalize(1)

SpecNorm == InitNorm /\ [][NextNorm]_vars


(***************************************************************************)
(* Properties.                                                             *)
(***************************************************************************)
Quote(r) == route[r] = "/quote"
Answered(r) == pc[r] = "done" /\ response[r] # NoneVal
Returned(r) == result[r] # NoneVal

\* the completion client failed: the POST raised, the status was not 200,
\* the normalisation raised, or no usable text was left
ClientFailed(r) ==
    /\ Returned(r)
    /\ \/ upstream[r].kind = "exception"
       \/ upstream[r].status_code # 200
       \/ result[r].quote = NoneVal
       \/ result[r].quote = Str(<<>>)

\* C1: whenever the completion client fails on a validated /quote request,
\* whatever the text of the exception, the response has status 200, one of
\* the five fallback quotes and the warning field.
C1_FailureGivesFallback ==
    \A r \in Reqs :
        Quote(r) /\ Answered(r) /\ ClientFailed(r) =>
            /\ response[r].status_code = 200
            /\ "warning" \in DOMAIN response[r].body
            /\ response[r].body.quote \in fallback_quotes

\* an argument the claim calls invalid
Missing(a) == a.daysLeft = Absent \/ a.totalTarget = Absent
NotNumbers(a) ==
    \/ ~IsStr(a.daysLeft) \/ ~IsStr(a.totalTarget)
    \/ ~IntParses(a.daysLeft.val) \/ ~IntParses(a.totalTarget.val)
OutOfRange(a) ==
    LET dl == IntValue(a.daysLeft.val)
        tt == IntValue(a.totalTarget.val)
    IN  dl < 0 \/ tt <= 0 \/ dl > tt
Invalid(a) == Missing(a) \/ NotNumbers(a) \/ OutOfRange(a)

\* C2: a /quote request with a missing or non-integer argument, or with
\* days_left < 0, total_target <= 0 or days_left > total_target is answered
\* with 400 (with the usage hint when an argument is missing) and goes no
\* further; every request for which a prompt is built has
\* 0 <= days_left <= total_target and total_target > 0.
C2_Validation ==
    \A r \in Reqs :
        /\ Quote(r) /\ pc[r] # "routed" /\ Invalid(args[r]) =>
              /\ Answered(r)
              /\ response[r].status_code = 400
              /\ prompt[r] = NoneVal
              /\ Missing(args[r]) => "usage" \in DOMAIN response[r].body
        /\ prompt[r] # NoneVal =>
              /\ 0 <= prompt[r].days_left
              /\ prompt[r].days_left <= prompt[r].total_target
              /\ prompt[r].total_target > 0
              /\ prompt[r].days_left = IntValue(args[r].daysLeft.val)
              /\ prompt[r].total_target = IntValue(args[r].totalTarget.val)

\* C2 witness: a request without totalTarget was answered 400 with the hint
C2_Witness ==
    \E r \in Reqs :
        /\ Quote(r) /\ Answered(r)
        /\ args[r].totalTarget = Absent /\ IsStr(args[r].daysLeft)
        /\ response[r].status_code = 400
        /\ "usage" \in DOMAIN response[r].body

\* C3: on a 200 reply the completion client never returns an empty string
\* as a quote: when nothing is left after extraction and post-processing it
\* reports an error, and a returned quote is a non-empty trimmed string.
C3_NoEmptyQuote ==
    \A r \in Reqs :
        Returned(r) /\ upstream[r].kind = "response" /\ upstream[r].status_code = 200 =>
            /\ result[r].stripped = Str(<<>>) => result[r].error # NoneVal
            /\ result[r].error = NoneVal =>
                  /\ IsStr(result[r].quote)
                  /\ result[r].quote.val # <<>>
                  /\ Strip(result[r].quote.val) = result[r].quote.val

\* C4: a post-processed quote longer than 200 characters is returned as its
\* first 200 characters followed by "..." (203 characters); one of 200
\* characters or fewer is returned unchanged; no returned quote is longer
\* than 203 characters.
C4_LengthCap ==
    \A r \in Reqs :
        Returned(r) /\ IsStr(result[r].quote) =>
            LET p == result[r].stripped.val
                q == result[r].quote.val
            IN  /\ Len(q) <= 203
                /\ Len(p) <= 200 => q = p
                /\ Len(p) > 200 =>
                      /\ Len(q) = 203
                      /\ SubSeq(q, 1, 200) = SubSeq(p, 1, 200)
                      /\ SubSeq(q, 201, 203) = <<".", ".", ".">>

\* C4 witness: a post-processed quote of 201 characters was cut to 200 and "..."
C4_Witness ==
    \E r \in Reqs :
        /\ Returned(r) /\ IsStr(result[r].quote)
        /\ Len(result[r].stripped.val) = 201
        /\ Len(result[r].quote.val) = 203

Phases == {"beginning", "early progress", "middle journey", "final sprint"}

\* C5: for valid numbers the phase is beginning when the percentage
\* 100 * (total_target - days_left) / total_target is below 25, early
\* progress from 25 to below 50, middle journey from 50 to below 75 and final
\* sprint from 75; each phase has its one tone.
C5_PhaseBuckets ==
    \A r \in Reqs :
        prompt[r] # NoneVal =>
            LET tt == total_target[r].val
                done == 100 * (total_target[r].val - days_left[r].val)
                phase == prompt[r].phase
            IN  /\ phase \in Phases
                /\ phase = "beginning" <=> done < 25 * tt
                /\ phase = "early progress" <=> (25 * tt <= done /\ done < 50 * tt)
                /\ phase = "middle journey" <=> (50 * tt <= done /\ done < 75 * tt)
                /\ phase = "final sprint" <=> 75 * tt <= done
                /\ <<phase, prompt[r].tone>> \in
                      {<<"beginning", "energetic and encouraging">>,
                       <<"early progress", "motivating and momentum-building">>,
                       <<"middle journey", "resilient and persistent">>,
                       <<"final sprint", "determined and finish-strong">>}

\* C5 witness: exactly 25% done is early progress
C5_Witness ==
    \E r \in Reqs :
        /\ prompt[r] # NoneVal
        /\ days_left[r].val = 3 /\ total_target[r].val = 4
        /\ prompt[r].phase = "early progress"

\* C6 as stated: daysLeft=0 of 100 is in the phase beginning; daysLeft=100
\* of 100 is 0% and in the phase beginning.
C6_Original ==
    \A r \in Reqs :
        prompt[r] # NoneVal /\ total_target[r].val = 100 =>
            /\ days_left[r].val = 0 => prompt[r].phase = "beginning"
            /\ days_left[r].val = 100 =>
                  /\ prompt[r].progress_percentage[1] = 0
                  /\ prompt[r].phase = "beginning"

\* C6 amended: daysLeft=0 of 100 is 100% and in the phase final sprint;
\* daysLeft=100 of 100 is 0% and in the phase beginning.
C6_Endpoints ==
    \A r \in Reqs :
        prompt[r] # NoneVal /\ total_target[r].val = 100 =>
            /\ days_left[r].val = 0 =>
                  /\ prompt[r].progress_percentage = <<100 * 100, 100>>
                  /\ prompt[r].phase = "final sprint"
            /\ days_left[r].val = 100 =>
                  /\ prompt[r].progress_percentage[1] = 0
                  /\ prompt[r].phase = "beginning"

\* C6 witness: the prompt for daysLeft=0 of 100 was built
C6_Witness ==
    \E r \in Reqs :
        /\ prompt[r] # NoneVal
        /\ days_left[r].val = 0 /\ total_target[r].val = 100
        /\ prompt[r].days_completed = 100


\* the trimmed content of a message ('' when the key is absent)
C7_Content(m) == IF IsStr(m.content) THEN Strip(m.content.val) ELSE <<>>

\* what follows the first colon of the first line of t that has a marker,
\* trimmed; <<>> when no line has a marker
C7_MarkerText(t) ==
    LET lines == Split(t, <<NL>>)
    IN  IF \E i \in 1..Len(lines) : HasMarker(lines[i])
        THEN LET i == CHOOSE k \in 1..Len(lines) :
                          /\ HasMarker(lines[k])
                          /\ \A j \in 1..(k - 1) : ~HasMarker(lines[j])
             IN  Strip(AfterFirst(lines[i], <<":">>))
        ELSE <<>>

C7_HasMarkerLine(t) ==
    LET lines == Split(t, <<NL>>)
    IN  \E i \in 1..Len(lines) : HasMarker(lines[i])

\* what follows the last ". " of t (all of t when there is none), trimmed,
\* without one trailing "."
C7_LastSentence(t) ==
    LET seps == Occurrences(t, <<".", " ">>)
        from == IF seps = {} THEN 1
                ELSE 2 + CHOOSE k \in seps : \A j \in seps : k >= j
        last == Strip(SubSeq(t, from, Len(t)))
    IN  IF last # <<>> /\ last[Len(last)] = "."
        THEN SubSeq(last, 1, Len(last) - 1)
        ELSE last

\* C7 as stated: a non-empty trimmed content is the extracted text; with an
\* empty content and a reasoning field the extracted text is what follows
\* the first colon of the first line with a marker, or, when no line has a
\* marker, the last sentence of the reasoning.
C7_Original ==
    \A r \in Reqs :
        Returned(r) /\ IsStr(result[r].extracted) =>
            LET m == upstream[r].body
                e == result[r].extracted.val
            IN  /\ C7_Content(m) # <<>> => e = C7_Content(m)
                /\ C7_Content(m) = <<>> /\ ~IsStr(m.reasoning) => e = <<>>
                /\ C7_Content(m) = <<>> /\ IsStr(m.reasoning) =>
                      IF C7_HasMarkerLine(m.reasoning.val)
                      THEN e = C7_MarkerText(m.reasoning.val)
                      ELSE e = C7_LastSentence(m.reasoning.val)

\* C7 amended: a non-empty trimmed content is the extracted text; with an
\* empty content and a reasoning field, nothing is extracted unless the
\* reasoning contains "quote" (case-insensitive); if it does, the extracted
\* text is what follows the first colon of the first line with a marker when
\* that is not empty, and otherwise the last sentence of the reasoning.
\* Content "" with reasoning "... the quote: Build boldly." gives
\* "Build boldly.".
C7_ReasoningFallback ==
    \A r \in Reqs :
        Returned(r) /\ IsStr(result[r].extracted) =>
            LET m == upstream[r].body
                e == result[r].extracted.val
            IN  /\ C7_Content(m) # <<>> => e = C7_Content(m)
                /\ C7_Content(m) = <<>> /\ ~IsStr(m.reasoning) => e = <<>>
                /\ C7_Content(m) = <<>> /\ IsStr(m.reasoning) =>
                      IF ~Contains(Lower(m.reasoning.val), <<"q", "u", "o", "t", "e">>)
                      THEN e = <<>>
                      ELSE IF C7_MarkerText(m.reasoning.val) # <<>>
                      THEN e = C7_MarkerText(m.reasoning.val)
                      ELSE e = C7_LastSentence(m.reasoning.val)
                /\ m.content = Str(<<>>) /\ m.reasoning = Str(ExampleReasoning) =>
                      e = BuildBoldly

\* C7 witness: the example of the specification was normalised
C7_Witness ==
    \E r \in Reqs :
        /\ Returned(r)
        /\ upstream[r].body = Message(Str(<<>>), Str(ExampleReasoning))
        /\ result[r].quote = Str(BuildBoldly)

\* s without its leading characters that are in cs
RECURSIVE C8_DropLeading(_, _)
C8_DropLeading(s, cs) ==
    IF s # <<>> /\ Head(s) \in cs THEN C8_DropLeading(Tail(s), cs) ELSE s

\* s without its trailing characters that are in cs
RECURSIVE C8_DropTrailing(_, _)
C8_DropTrailing(s, cs) ==
    IF s # <<>> /\ s[Len(s)] \in cs
    THEN C8_DropTrailing(SubSeq(s, 1, Len(s) - 1), cs)
    ELSE s

C8_DropEnds(s, cs) == C8_DropTrailing(C8_DropLeading(s, cs), cs)

\* C8 as stated: post-processing removes one pair of double quotes around
\* the text if there is one, then one pair of single quotes, then trims;
\* quote characters beyond the pair and an unpaired one stay.
C8_Original ==
    \A r \in Reqs :
        Returned(r) /\ IsStr(result[r].stripped) =>
            result[r].stripped.val =
                Strip(StripOnePair(StripOnePair(result[r].extracted.val, DQ), SQ))

\* C8 amended: post-processing removes every leading and every trailing
\* double quote (any number, at one end or both), then every leading and
\* trailing single quote, then the surrounding whitespace; a quote character
\* that only comes to an end of the text by a later step stays.
C8_StripsAllQuotes ==
    \A r \in Reqs :
        Returned(r) /\ IsStr(result[r].stripped) =>
            result[r].stripped.val =
                C8_DropEnds(C8_DropEnds(C8_DropEnds(result[r].extracted.val, {DQ}),
                                        {SQ}),
                            Whitespace)

\* C8 witness: a double quote at one end only was removed, and a double
\* quote behind a single quote was kept
C8_Witness ==
    \E r \in Reqs :
        /\ Returned(r)
        /\ result[r].extracted = Str(<<SQ, DQ, "a">>)
        /\ result[r].stripped = Str(<<DQ, "a">>)

\* C9: the POST is issued at most once per request, only for a request that
\* passed validation and after its prompt was built, never for a request
\* answered with 400; the reply is normalised only after the POST; a request
\* gets at most one response, a finished one exactly one, and a /quote
\* request is answered 200 only after the upstream call returned or failed.
C9_LinearFlow ==
    \A r \in Reqs :
        /\ posts[r] <= 1
        /\ responses[r] <= 1
        /\ pc[r] = "done" <=> responses[r] = 1
        /\ responses[r] = 1 <=> response[r] # NoneVal
        /\ posts[r] = 1 => Quote(r) /\ Accepts(args[r]) /\ prompt[r] # NoneVal
        /\ prompt[r] # NoneVal => posts[r] = 1
        /\ upstream[r] # NoneVal => posts[r] = 1
        /\ Returned(r) => upstream[r] # NoneVal
        /\ Answered(r) /\ response[r].status_code = 400 => posts[r] = 0
        /\ Answered(r) /\ Quote(r) /\ response[r].status_code # 400 =>
              posts[r] = 1 /\ Returned(r)

\* C9 witness: a request whose upstream call raised was answered after one POST
C9_Witness ==
    \E r \in Reqs :
        /\ Quote(r) /\ Answered(r)
        /\ posts[r] = 1
        /\ upstream[r].kind = "exception"
        /\ "warning" \in DOMAIN response[r].body

\* everything request r has
Locals(r) ==
    <<pc[r], route[r], args[r], days_left[r], total_target[r], prompt[r],
      posts[r], upstream[r], result[r], response[r], responses[r]>>

\* the response without the randomly chosen fallback quote
Visible(r) ==
    LET body == response[r].body
        keys == IF "warning" \in DOMAIN body THEN DOMAIN body \ {"quote"}
                ELSE DOMAIN body
    IN  <<response[r].status_code, [k \in keys |-> body[k]]>>

\* answered requests with the same path, arguments and upstream outcome
\* have the same response
Determined ==
    \A r1, r2 \in Reqs :
        /\ Answered(r1) /\ Answered(r2)
        /\ route[r1] = route[r2]
        /\ args[r1] = args[r2]
        /\ upstream[r1] = upstream[r2]
        => Visible(r1) = Visible(r2)

\* C10: no step of a request writes the API key or the state of another
\* request, and the status and the fields of a response other than the
\* fallback quote depend only on the request's own arguments and the outcome
\* of its own upstream call, however the requests are interleaved.
C10_NoSharedState ==
    [][/\ OPENROUTER_API_KEY' = OPENROUTER_API_KEY
       /\ \E r \in Reqs : \A o \in Reqs \ {r} : Locals(o)' = Locals(o)
       /\ Determined']_vars

\* C10 witness: two requests with the same arguments and the same upstream
\* failure, handled together, got responses that differ in the fallback
\* quote only
C10_Witness ==
    \E r1, r2 \in Reqs :
        /\ r1 # r2
        /\ Quote(r1) /\ Quote(r2) /\ Answered(r1) /\ Answered(r2)
        /\ args[r1] = args[r2] /\ upstream[r1] = upstream[r2]
        /\ "warning" \in DOMAIN response[r1].body
        /\ response[r1].body.quote # response[r2].body.quote

====
